---------------------------- MODULE Spec2Model ----------------------------
(***************************************************************************)
(* Roster API (src/main.py, src/schemas.py): three document collections    *)
(* (user, tasktype, roster) behind create and list endpoints.              *)
(*                                                                         *)
(* A create handler issues two separate store calls: a find_one that       *)
(* probes for a conflicting document and, when none is found, an insert.   *)
(* Each store call is one atomic step; handlers of different requests may  *)
(* interleave between the two calls (Init) or run one at a time (InitSeq). *)
(* A completed request leaves its response in "last" until the framework   *)
(* has sent it; the next handler step follows the send.                    *)
(*                                                                         *)
(* Only the fields some code path reads are kept in a document: name,      *)
(* alias, geo, timezone, notes, description and tasktype_id are carried    *)
(* through by the handlers untouched and are left out.                     *)
(***************************************************************************)
EXTENDS Integers, Sequences, FiniteSets, TLC

\* ------------------------------------------------------------------ bounds
\* Request handlers that may be in progress at the same time.
NReq == 2
\* Documents stored plus inserts in flight, over all collections.
MaxDocs == 2

Req == 1..NReq

\* ------------------------------------------------------------ values
\* Python's None for an optional text field or query parameter.
NoneV == "<None>"

\* A string of characters is a sequence of character codes; a datetime
\* string "<date><sep><time>" is the sequence << day, sep, tod >> of its
\* three fixed-width parts, each ordered as the text it stands for is.
SP == 0
TEE == 1
\* The two times of day the code names: "00:00:00" and "23:59:59".
StartOfDay == 0
EndOfDay == 1

\* Python (and the store) compare strings code point by code point.
RECURSIVE StrLess(_, _)
StrLess(a, b) ==
    IF b = << >> THEN FALSE
    ELSE IF a = << >> THEN TRUE
    ELSE IF Head(a) # Head(b) THEN Head(a) < Head(b)
    ELSE StrLess(Tail(a), Tail(b))

StrLeq(a, b) == a = b \/ StrLess(a, b)

\* datetime.fromisoformat: date, any one separator character, time of day;
\* anything else raises ValueError. The value is the instant, in time-of-day
\* units since day 0.
fromisoformat(s) ==
    IF Len(s) = 3
    THEN [ok |-> TRUE, value |-> s[1] * (EndOfDay + 1) + s[3]]
    ELSE [ok |-> FALSE, value |-> 0]

\* str(ObjectId): the identifier's text form, one per identifier.
IdStr(i) == << "oid", i >>
NoId == << >>

\* ------------------------------------------------------------ inputs
\* Datetimes at the two ends of a day, written with "T"; one written with
\* a space instead; and a text that is no datetime.
Days == {1, 2}
Tods == {StartOfDay, EndOfDay}
Garbage == << 9 >>
TimeStrings ==
    {<< d, TEE, t >> : d \in Days, t \in Tods}
        \cup {<< 1, SP, EndOfDay >>}
        \cup {Garbage}

UserIds == {"u1", "u2"}
RosterPayloads ==
    [user_id : UserIds, start_time : TimeStrings, end_time : TimeStrings]

\* An e-mail address as typed: local part and domain; no domain, no "@".
RawEmails ==
    {[local |-> "a", domain |-> "x.com"],
     [local |-> "a", domain |-> "X.COM"],
     [local |-> "b", domain |-> "x.com"],
     [local |-> "nobody", domain |-> ""]}
Roles == {"admin", "manager", "member"}
RoleInputs == {"member", "manager", "root"}
UserPayloads == [email : RawEmails, role : RoleInputs, manager_id : {NoneV, "u1"}]

TaskNames == {"dev", "qa"}
TaskCodes == {NoneV, "", "D", "Q"}
TaskPayloads == [name : TaskNames, code : TaskCodes, active : BOOLEAN]

\* Query parameters; "" and << >> stand for a parameter absent or empty.
RoleParams == {"", "manager"}
ManagerParams == {"", "u1"}
ActiveParams == {<< >>, << TRUE >>, << FALSE >>}
UserIdParams == {""} \cup UserIds
DateParams == {<< >>} \cup {<< d >> : d \in Days}

\* ------------------------------------------------------------ state
VARIABLES
    user,       \* collection "user": sequence of documents, insertion order
    tasktype,   \* collection "tasktype"
    roster,     \* collection "roster"
    nextId,     \* the store's next ObjectId
    pc,         \* per handler: "idle", or the insert it is about to issue
    cur,        \* per handler: the validated document awaiting insert
    last,       \* the request that just completed and its response
    workers     \* how many requests the host runtime serves at a time

vars == << user, tasktype, roster, nextId, pc, cur, last, workers >>

NoDoc == [none |-> TRUE]
NoResp == [op |-> "none", req |-> << >>, status |-> 0, detail |-> "",
           id |-> NoId, docs |-> << >>]

Init ==
    /\ user = << >>
    /\ tasktype = << >>
    /\ roster = << >>
    /\ nextId = 1
    /\ pc = [r \in Req |-> "idle"]
    /\ cur = [r \in Req |-> NoDoc]
    /\ last = NoResp
    /\ workers = NReq

\* The same service behind a runtime that serves one request at a time.
InitSeq ==
    /\ user = << >>
    /\ tasktype = << >>
    /\ roster = << >>
    /\ nextId = 1
    /\ pc = [r \in Req |-> "idle"]
    /\ cur = [r \in Req |-> NoDoc]
    /\ last = NoResp
    /\ workers = 1

\* ------------------------------------------------------------ store
Range(s) == {s[i] : i \in DOMAIN s}

InFlight == {r \in Req : pc[r] # "idle"}

\* Room for one more insert within the model's bound.
Room == Len(user) + Len(tasktype) + Len(roster) + Cardinality(InFlight) < MaxDocs

\* create_document(collection, data): insert_one, return str(inserted_id).
create_document(coll, data) ==
    Append(coll, [k \in DOMAIN data \cup {"_id"} |->
                     IF k = "_id" THEN nextId ELSE data[k]])

\* A store filter: "and" holds the conditions on the filter's own keys, "or"
\* the alternatives listed under its "$or" key (none: the key is absent). A
\* condition is << field, operator, value >>; a document matches when all
\* conditions of "and" hold and, with "$or" present, all of one alternative.
\* No condition the handlers build holds of a document that lacks the field.
Holds(d, c) ==
    /\ c[1] \in DOMAIN d
    /\ LET x == d[c[1]] IN
       CASE c[2] = "eq" -> x = c[3]
         [] c[2] = "lt" -> StrLess(x, c[3])
         [] c[2] = "gt" -> StrLess(c[3], x)
         [] c[2] = "lte" -> StrLeq(x, c[3])
         [] c[2] = "gte" -> StrLeq(c[3], x)

AllHold(d, cs) == \A i \in DOMAIN cs : Holds(d, cs[i])

Matches(d, filt) ==
    /\ AllHold(d, filt.and)
    /\ filt.or # << >> => \E j \in DOMAIN filt.or : AllHold(d, filt.or[j])

\* collection.find_one(filter), used for its truth value only.
find_one(coll, filt) == \E d \in Range(coll) : Matches(d, filt)

\* get_documents(collection, filter): every matching document, store order.
get_documents(coll, filt) == SelectSeq(coll, LAMBDA d : Matches(d, filt))

\* d["id"] = str(d.pop("_id"))
OutDoc(d) ==
    [k \in (DOMAIN d \ {"_id"}) \cup {"id"} |->
        IF k = "id" THEN IdStr(d._id) ELSE d[k]]

OutDocs(docs) == [i \in DOMAIN docs |-> OutDoc(docs[i])]

\* A request is taken up by the first idle handler, while the runtime has
\* a worker free and no response is waiting to be sent.
Accepts(r) ==
    /\ pc[r] = "idle"
    /\ \A q \in Req : q < r => pc[q] # "idle"
    /\ Cardinality(InFlight) < workers
    /\ last.op = "none"

\* A handler resumes at its insert.
Resumes(r, op) == pc[r] = op /\ last.op = "none"

\* An HTTP error response; HTTPException(status_code, detail) or, for an
\* exception nothing catches, the framework's 500.
Respond(op, req, status, detail) ==
    last' = [op |-> op, req |-> req, status |-> status, detail |-> detail,
             id |-> NoId, docs |-> << >>]

\* return {"id": inserted_id}
RespondId(op, req) ==
    last' = [op |-> op, req |-> req, status |-> 200, detail |-> "",
             id |-> IdStr(nextId), docs |-> << >>]

\* return docs
RespondDocs(op, req, docs) ==
    last' = [op |-> op, req |-> req, status |-> 200, detail |-> "",
             id |-> NoId, docs |-> OutDocs(docs)]

\* The handler goes on to its insert.
Proceed(r, op, data) ==
    /\ Room
    /\ pc' = [pc EXCEPT ![r] = op]
    /\ cur' = [cur EXCEPT ![r] = data]
    /\ UNCHANGED last

Finish(r) ==
    /\ pc' = [pc EXCEPT ![r] = "idle"]
    /\ cur' = [cur EXCEPT ![r] = NoDoc]

\* The framework sends the pending response to the client.
Deliver ==
    /\ last.op # "none"
    /\ last' = NoResp
    /\ UNCHANGED << user, tasktype, roster, nextId, pc, cur, workers >>

\* ------------------------------------------------------------ users
Lower(d) == IF d = "X.COM" THEN "x.com" ELSE d

\* pydantic EmailStr: rejects text that is no address; the accepted value
\* is the address with its domain in lower case.
EmailStr(e) ==
    IF e.domain = ""
    THEN [ok |-> FALSE, value |-> e]
    ELSE [ok |-> TRUE, value |-> [local |-> e.local, domain |-> Lower(e.domain)]]

\* UserSchema(**payload.model_dump()): role is a Literal of the three roles.
UserSchemaOk(p) == p.role \in Roles

UserData(p) ==
    [email |-> EmailStr(p.email).value, role |-> p.role,
     manager_id |-> p.manager_id, is_active |-> TRUE]

UserEmailFilterWrongKey(data) ==
    [and |-> << << "mail", "eq", data.email >> >>, or |-> << >>]

\* {"email": data.email}
UserEmailFilter(data) == [and |-> << << "email", "eq", data.email >> >>, or |-> << >>]

\* POST /api/users up to and including the find_one.
CreateUserCheck(r) ==
    /\ Accepts(r)
    /\ UNCHANGED << user, tasktype, roster, nextId, workers >>
    /\ \E p \in UserPayloads :
          IF ~EmailStr(p.email).ok
          THEN Respond("create_user", p, 422, "value is not a valid email address")
               /\ UNCHANGED << pc, cur >>
          ELSE IF ~UserSchemaOk(p)
          THEN Respond("create_user", p, 500, "Internal Server Error")
               /\ UNCHANGED << pc, cur >>
          ELSE IF find_one(user, UserEmailFilter(UserData(p)))
          THEN Respond("create_user", p, 400, "Email already exists")
               /\ UNCHANGED << pc, cur >>
          ELSE Proceed(r, "create_user", UserData(p))

\* POST /api/users from create_document on.
CreateUserInsert(r) ==
    /\ Resumes(r, "create_user")
    /\ user' = create_document(user, cur[r])
    /\ nextId' = nextId + 1
    /\ RespondId("create_user", cur[r])
    /\ Finish(r)
    /\ UNCHANGED << tasktype, roster, workers >>

\* GET /api/users: a key per parameter that is given and not empty.
UserFilter(role, manager_id) ==
    [and |-> (IF role # "" THEN << << "role", "eq", role >> >> ELSE << >>)
             \o (IF manager_id # ""
                 THEN << << "manager_id", "eq", manager_id >> >> ELSE << >>),
     or |-> << >>]

ListUsers(r) ==
    /\ Accepts(r)
    /\ \E role \in RoleParams, manager_id \in ManagerParams :
          RespondDocs("list_users", [role |-> role, manager_id |-> manager_id],
                      get_documents(user, UserFilter(role, manager_id)))
    /\ UNCHANGED << user, tasktype, roster, nextId, pc, cur, workers >>

\* ------------------------------------------------------------ task types
TaskData(p) == [name |-> p.name, code |-> p.code, active |-> p.active]

TaskFilterAlwaysCode(data) ==
    [and |-> << >>,
     or |-> << << << "name", "eq", data.name >> >>,
               << << "code", "eq", data.code >> >> >>]

\* filt = {"$or": [{"name": data.name}]}; if data.code: append {"code": data.code}
TaskFilter(data) ==
    [and |-> << >>,
     or |-> << << << "name", "eq", data.name >> >> >>
            \o (IF data.code \notin {NoneV, ""}
                THEN << << << "code", "eq", data.code >> >> >> ELSE << >>)]

\* POST /api/tasktypes up to and including the find_one.
CreateTasktypeCheck(r) ==
    /\ Accepts(r)
    /\ UNCHANGED << user, tasktype, roster, nextId, workers >>
    /\ \E p \in TaskPayloads :
          IF find_one(tasktype, TaskFilter(TaskData(p)))
          THEN Respond("create_tasktype", p, 400, "Task type with same name/code exists")
               /\ UNCHANGED << pc, cur >>
          ELSE Proceed(r, "create_tasktype", TaskData(p))

CreateTasktypeInsertIntoUser(r) ==
    /\ Resumes(r, "create_tasktype")
    /\ user' = create_document(user, cur[r])
    /\ nextId' = nextId + 1
    /\ RespondId("create_tasktype", cur[r])
    /\ Finish(r)
    /\ UNCHANGED << tasktype, roster, workers >>

\* POST /api/tasktypes from create_document on.
CreateTasktypeInsert(r) ==
    /\ Resumes(r, "create_tasktype")
    /\ tasktype' = create_document(tasktype, cur[r])
    /\ nextId' = nextId + 1
    /\ RespondId("create_tasktype", cur[r])
    /\ Finish(r)
    /\ UNCHANGED << user, roster, workers >>

\* GET /api/tasktypes: active is << >> when the parameter is absent.
TasktypeListFilter(active) ==
    [and |-> IF active # << >> THEN << << "active", "eq", active[1] >> >> ELSE << >>,
     or |-> << >>]

ListTasktypes(r) ==
    /\ Accepts(r)
    /\ \E active \in ActiveParams :
          RespondDocs("list_tasktypes", [active |-> active],
                      get_documents(tasktype, TasktypeListFilter(active)))
    /\ UNCHANGED << user, tasktype, roster, nextId, pc, cur, workers >>

\* ------------------------------------------------------------ rosters
RosterData(p) ==
    [user_id |-> p.user_id, start_time |-> p.start_time, end_time |-> p.end_time]

\* if end <= start
EndNotAfterStartStrict(start, end) == end.value < start.value
EndNotAfterStart(start, end) == end.value <= start.value

OverlapFilterInclusive(p) ==
    [and |-> << << "user_id", "eq", p.user_id >> >>,
     or |-> << << << "start_time", "lte", p.end_time >>,
                  << "end_time", "gte", p.start_time >> >> >>]

\* {"user_id": ..., "$or": [{"start_time": {"$lt": end}, "end_time": {"$gt": start}}]}
OverlapFilter(p) ==
    [and |-> << << "user_id", "eq", p.user_id >> >>,
     or |-> << << << "start_time", "lt", p.end_time >>,
                  << "end_time", "gt", p.start_time >> >> >>]

\* POST /api/rosters up to and including the find_one. A ValueError of
\* fromisoformat is caught by nothing: the framework answers 500.
CreateRosterCheck(r) ==
    /\ Accepts(r)
    /\ UNCHANGED << user, tasktype, roster, nextId, workers >>
    /\ \E p \in RosterPayloads :
          LET start == fromisoformat(p.start_time)
              end == fromisoformat(p.end_time)
          IN IF ~start.ok \/ ~end.ok
             THEN Respond("create_roster", p, 500, "Internal Server Error")
                  /\ UNCHANGED << pc, cur >>
             ELSE IF EndNotAfterStart(start, end)
             THEN Respond("create_roster", p, 400, "End time must be after start time")
                  /\ UNCHANGED << pc, cur >>
             ELSE IF find_one(roster, OverlapFilter(p))
             THEN Respond("create_roster", p, 400, "Overlapping roster for this user")
                  /\ UNCHANGED << pc, cur >>
             ELSE Proceed(r, "create_roster", RosterData(p))

CreateRosterInsertRechecked(r) ==
    /\ Resumes(r, "create_roster")
    /\ Finish(r)
    /\ UNCHANGED << user, tasktype, workers >>
    /\ IF find_one(roster, OverlapFilter(cur[r]))
       THEN /\ Respond("create_roster", cur[r], 400, "Overlapping roster for this user")
            /\ UNCHANGED << roster, nextId >>
       ELSE /\ roster' = create_document(roster, cur[r])
            /\ nextId' = nextId + 1
            /\ RespondId("create_roster", cur[r])

\* POST /api/rosters from create_document on.
CreateRosterInsert(r) ==
    /\ Resumes(r, "create_roster")
    /\ roster' = create_document(roster, cur[r])
    /\ nextId' = nextId + 1
    /\ RespondId("create_roster", cur[r])
    /\ Finish(r)
    /\ UNCHANGED << user, tasktype, workers >>

\* f"{date}T00:00:00" and f"{date}T23:59:59"
DayStart(date) == date \o << TEE, StartOfDay >>
DayEnd(date) == date \o << TEE, EndOfDay >>

RosterListFilterExclusive(user_id, date) ==
    [and |-> IF user_id # "" THEN << << "user_id", "eq", user_id >> >> ELSE << >>,
     or |-> IF date # << >>
            THEN << << << "start_time", "lt", DayEnd(date) >>,
                       << "end_time", "gt", DayStart(date) >> >> >>
            ELSE << >>]

\* GET /api/rosters: user_id "" and date << >> stand for absent or empty.
RosterListFilter(user_id, date) ==
    [and |-> IF user_id # "" THEN << << "user_id", "eq", user_id >> >> ELSE << >>,
     or |-> IF date # << >>
            THEN << << << "start_time", "lte", DayEnd(date) >>,
                       << "end_time", "gte", DayStart(date) >> >> >>
            ELSE << >>]

ListRosters(r) ==
    /\ Accepts(r)
    /\ \E user_id \in UserIdParams, date \in DateParams :
          RespondDocs("list_rosters", [user_id |-> user_id, date |-> date],
                      get_documents(roster, RosterListFilter(user_id, date)))
    /\ UNCHANGED << user, tasktype, roster, nextId, pc, cur, workers >>

\* ------------------------------------------------------------ specifications
UserStep(r) == CreateUserCheck(r) \/ CreateUserInsert(r) \/ ListUsers(r)

TasktypeStep(r) ==
    CreateTasktypeCheck(r) \/ CreateTasktypeInsert(r) \/ ListTasktypes(r)

RosterStep(r) == CreateRosterCheck(r) \/ CreateRosterInsert(r) \/ ListRosters(r)

\* Requests of every kind, served concurrently: any handler may take its
\* next step.
Next == Deliver \/ \E r \in Req : UserStep(r) \/ TasktypeStep(r) \/ RosterStep(r)

Spec == Init /\ [][Next]_vars

\* The traffic of one endpoint family alone, served concurrently (Init) or
\* one request at a time (InitSeq): each find_one and its insert complete
\* before the next request starts.
NextUser == Deliver \/ \E r \in Req : UserStep(r)
NextTasktype == Deliver \/ \E r \in Req : TasktypeStep(r)
NextRoster == Deliver \/ \E r \in Req : RosterStep(r)

SpecUser == Init /\ [][NextUser]_vars
SpecUserSeq == InitSeq /\ [][NextUser]_vars
SpecTasktype == Init /\ [][NextTasktype]_vars
SpecTasktypeSeq == InitSeq /\ [][NextTasktype]_vars
SpecRoster == Init /\ [][NextRoster]_vars
SpecRosterSeq == InitSeq /\ [][NextRoster]_vars

\* ------------------------------------------------------------ properties
OverlapDetail == "Overlapping roster for this user"
EndAfterStartDetail == "End time must be after start time"

Instant(s) == fromisoformat(s).value
Parses(s) == fromisoformat(s).ok

\* The request that just completed was a create_roster with start < end.
RosterRequestDone ==
    /\ last.op = "create_roster"
    /\ Parses(last.req.start_time) /\ Parses(last.req.end_time)
    /\ Instant(last.req.start_time) < Instant(last.req.end_time)

\* The stored rosters other than the one the last response reports created.
EarlierRosters == {d \in Range(roster) : IdStr(d._id) # last.id}

\* existing.start_time < new.end_time AND existing.end_time > new.start_time
TextOverlap(x, y) ==
    StrLess(x.start_time, y.end_time) /\ StrLess(y.start_time, x.end_time)

\* The same test on the instants the texts denote: half-open intervals meet.
IntervalsOverlap(x, y) ==
    /\ Instant(x.start_time) < Instant(y.end_time)
    /\ Instant(y.start_time) < Instant(x.end_time)

\* Every stored time is written with the same separator.
OneFormat ==
    Cardinality({d.start_time[2] : d \in Range(roster)}
                    \cup {d.end_time[2] : d \in Range(roster)}) <= 1

\* C1: with requests served one at a time, a create_roster with start < end
\* is answered 400 "overlapping" exactly when a stored roster of the same user
\* has start_time < new end_time and end_time > new start_time (as text), and
\* is answered 200 otherwise; no two stored rosters of one user overlap as
\* text, nor, while all stored times share one format, as half-open intervals.
C1_SequentialOverlap ==
    /\ RosterRequestDone =>
          /\ last.status \in {200, 400}
          /\ (last.status = 400 /\ last.detail = OverlapDetail)
                <=> \E d \in EarlierRosters :
                        d.user_id = last.req.user_id /\ TextOverlap(d, last.req)
          /\ last.status = 200 <=> last.id # NoId
    /\ \A i, j \in DOMAIN roster :
          i < j /\ roster[i].user_id = roster[j].user_id =>
              /\ ~TextOverlap(roster[i], roster[j])
              /\ OneFormat => ~IntervalsOverlap(roster[i], roster[j])

\* A roster that starts where an earlier one of the same user ends was created.
C1_Witness ==
    /\ RosterRequestDone /\ last.status = 200
    /\ \E d \in EarlierRosters :
          d.user_id = last.req.user_id /\ d.end_time = last.req.start_time

\* C2: a create_roster that has passed its overlap check is persisted and
\* answered 200 whatever has been stored since the check, so two concurrent
\* requests of one user with overlapping intervals are both persisted.
C2_CheckedRequestPersists ==
    [][\A r \in Req :
          pc[r] = "create_roster" /\ pc'[r] = "idle" =>
              /\ last'.status = 200
              /\ Len(roster') = Len(roster) + 1
              /\ OutDoc(roster'[Len(roster')]) = [id |-> last'.id] @@ cur[r]]_vars

\* Two overlapping rosters of one user, in one format, are both stored.
C2_Witness ==
    /\ last.op = "create_roster" /\ last.status = 200
    /\ OneFormat
    /\ \E i, j \in DOMAIN roster :
          /\ i < j /\ roster[i].user_id = roster[j].user_id
          /\ TextOverlap(roster[i], roster[j])
          /\ IntervalsOverlap(roster[i], roster[j])

\* C5: a create_roster whose end is not strictly after its start is answered
\* 400 "end time must be after start time" whatever the store holds, and a
\* create_roster answered with an error stores nothing; every stored roster,
\* and every one awaiting its insert, has start before end.
C5_EndAfterStart ==
    /\ [](/\ (/\ last.op = "create_roster"
              /\ Parses(last.req.start_time) /\ Parses(last.req.end_time)
              /\ Instant(last.req.end_time) <= Instant(last.req.start_time))
             => last.status = 400 /\ last.detail = EndAfterStartDetail
          /\ \A d \in Range(roster) : Instant(d.start_time) < Instant(d.end_time)
          /\ \A r \in Req : pc[r] = "create_roster" =>
                Instant(cur[r].start_time) < Instant(cur[r].end_time))
    /\ [][last'.op = "create_roster" /\ last'.status # 200 => roster' = roster]_vars

\* An inverted range was refused although a stored roster of the same user
\* matches the overlap query for it.
C5_Witness ==
    /\ last.op = "create_roster" /\ last.detail = EndAfterStartDetail
    /\ \E d \in Range(roster) :
          d.user_id = last.req.user_id /\ TextOverlap(d, last.req)

\* The rosters a list_rosters request asks for, and how one is listed.
C7_Wanted(d) ==
    /\ last.req.date # << >> =>
          /\ StrLeq(d.start_time, last.req.date \o << TEE, EndOfDay >>)
          /\ StrLeq(last.req.date \o << TEE, StartOfDay >>, d.end_time)
    /\ last.req.user_id # "" => d.user_id = last.req.user_id

C7_Listed(d) ==
    [id |-> IdStr(d._id), user_id |-> d.user_id,
     start_time |-> d.start_time, end_time |-> d.end_time]

\* C7: list_rosters answers with exactly the stored rosters that have
\* start_time <= "<date>T23:59:59" and end_time >= "<date>T00:00:00" as text
\* (when a date is given) and the given user_id (when one is given), each
\* once, its id as text; of the rosters written with "T", a date selects
\* those whose interval meets that day, so none that lies on a later day.
C7_ListRosters ==
    last.op = "list_rosters" =>
        /\ last.status = 200
        /\ Range(last.docs) = {C7_Listed(d) : d \in {x \in Range(roster) : C7_Wanted(x)}}
        /\ \A i, j \in DOMAIN last.docs : i # j => last.docs[i].id # last.docs[j].id
        /\ \A d \in Range(roster) :
              (/\ last.req.date # << >>
               /\ last.req.user_id \in {"", d.user_id}
               /\ d.start_time[2] = TEE /\ d.end_time[2] = TEE)
              => (C7_Listed(d) \in Range(last.docs)
                    <=> /\ Instant(d.start_time)
                           <= last.req.date[1] * (EndOfDay + 1) + EndOfDay
                        /\ Instant(d.end_time)
                           >= last.req.date[1] * (EndOfDay + 1) + StartOfDay)

\* A listing for a day that returns a stored roster touching the day and
\* leaves out one that lies on the following day.
C7_Witness ==
    /\ last.op = "list_rosters" /\ last.req.date = << 1 >>
    /\ Len(last.docs) = 1
    /\ \E d \in Range(roster) : d.start_time[1] = 2 /\ d.end_time[1] = 2
    /\ \E d \in Range(roster) : d.start_time = << 1, TEE, EndOfDay >>

\* C8: a create_roster whose start_time or end_time is no datetime is
\* answered 400.
C8_UnparsableIs400 ==
    (/\ last.op = "create_roster"
     /\ ~Parses(last.req.start_time) \/ ~Parses(last.req.end_time))
    => last.status = 400

\* ---- users
EarlierUsers == {d \in Range(user) : IdStr(d._id) # last.id}

UniqueEmails ==
    \A i, j \in DOMAIN user : i < j => user[i].email # user[j].email

\* C3: with requests served one at a time, a create_user with a valid
\* payload is answered 400 "email already exists" exactly when a stored user
\* has its e-mail address, and 200 otherwise, with an id no earlier document
\* has; a create_user answered with an error stores nothing; no two stored
\* users share an e-mail address.
C3_SequentialUniqueEmail ==
    /\ [](/\ (/\ last.op = "create_user"
              /\ EmailStr(last.req.email).ok
              /\ last.req.role \in Roles)
             => /\ last.status \in {200, 400}
                /\ (last.status = 400 /\ last.detail = "Email already exists")
                      <=> \E d \in EarlierUsers :
                              d.email = EmailStr(last.req.email).value
                /\ last.status = 200 =>
                      /\ last.id = IdStr(user[Len(user)]._id)
                      /\ user[Len(user)].email = EmailStr(last.req.email).value
                      /\ \A d \in Range(user) \cup Range(tasktype) \cup Range(roster) :
                            IdStr(d._id) = last.id => d = user[Len(user)]
          /\ UniqueEmails)
    /\ [][last'.op = "create_user" /\ last'.status # 200 => user' = user]_vars

\* A second create_user with a stored e-mail address was refused.
C3_Witness ==
    /\ last.op = "create_user" /\ last.status = 400
    /\ \E d \in Range(user) : d.email = last.req.email

\* C9: a create_user whose role is none of admin, manager, member is
\* answered 400, and every stored user has one of the three roles.
C9_BadRoleIs400 ==
    /\ (/\ last.op = "create_user"
        /\ EmailStr(last.req.email).ok
        /\ last.req.role \notin Roles)
       => last.status = 400
    /\ \A d \in Range(user) : d.role \in Roles

\* ---- task types
EarlierTasktypes == {d \in Range(tasktype) : IdStr(d._id) # last.id}

HasCode(d) == d.code \notin {NoneV, ""}

UniqueNamesAndCodes ==
    \A i, j \in DOMAIN tasktype :
        i < j => /\ tasktype[i].name # tasktype[j].name
                 /\ HasCode(tasktype[i]) => tasktype[i].code # tasktype[j].code

\* C4: with requests served one at a time, a create_tasktype is answered 400
\* exactly when a stored task type has its name or, the candidate having a
\* non-empty code, its code, and 200 otherwise; stored names are pairwise
\* distinct and so are stored non-empty codes.
C4_SequentialUniqueTasktype ==
    /\ last.op = "create_tasktype" =>
          /\ last.status \in {200, 400}
          /\ last.status = 400
                <=> \E d \in EarlierTasktypes :
                        \/ d.name = last.req.name
                        \/ HasCode(last.req) /\ d.code = last.req.code
          /\ last.status = 200 <=> last.id # NoId
    /\ UniqueNamesAndCodes

\* A candidate with a new name was refused for its code alone.
C4_Witness ==
    /\ last.op = "create_tasktype" /\ last.status = 400
    /\ \A d \in Range(tasktype) : d.name # last.req.name
    /\ \E d \in Range(tasktype) : d.code = last.req.code

\* C10: e-mail addresses of stored users, and names and non-empty codes of
\* stored task types, are pairwise distinct also when requests interleave.
C10_UniqueUnderInterleaving == UniqueEmails /\ UniqueNamesAndCodes

\* ---- all collections
Grows(c, d) == d = c \/ (Len(d) = Len(c) + 1 /\ SubSeq(d, 1, Len(c)) = c)

\* C6: every step leaves each collection as it was or one document longer
\* with the earlier documents untouched; a create answered 200 adds one
\* document to the collection of its entity and none to another; a create
\* answered with an error, a list request and a step that answers nothing
\* leave every collection as it was.
C6_SingleWriteOrNone ==
    [][/\ Grows(user, user') /\ Grows(tasktype, tasktype') /\ Grows(roster, roster')
       /\ IF last'.op # "none" /\ last'.status = 200
             /\ last'.op \in {"create_user", "create_tasktype", "create_roster"}
          THEN /\ (Len(user') = Len(user) + 1) <=> last'.op = "create_user"
               /\ (Len(tasktype') = Len(tasktype) + 1) <=> last'.op = "create_tasktype"
               /\ (Len(roster') = Len(roster) + 1) <=> last'.op = "create_roster"
          ELSE /\ user' = user /\ tasktype' = tasktype /\ roster' = roster]_vars

\* A roster was created while another collection held a document.
C6_Witness ==
    /\ last.op = "create_roster" /\ last.status = 200
    /\ Len(user) = 1 /\ Len(roster) = 1

=============================================================================
